---- MODULE Spec2Model ----
(***************************************************************************)
(* A model of the DCPU-16 toolchain of this repository: the assembler      *)
(* linker (src/src/assembler/linker.rs), the parsed-item types and the     *)
(* expression evaluator (src/src/assembler/types.rs), and the CPU          *)
(* interpreter and instruction encoder, which are described by spec.md     *)
(* only (their source files are not part of the tree).                     *)
(***************************************************************************)
EXTENDS Integers, Sequences, FiniteSets, TLC

VARIABLES
    \* ---- linker: link() and extract_labels() ----
    ast,          \* the parsed item stream handed to link
    build,        \* "debug" or "release": decides what an arithmetic overflow does
    pc,           \* position of link: "extract", "loop", "pass", "done"
    cursor,       \* index (1-based) of the item the current for loop is at
    bin,          \* Vec<u16> bin
    globals,      \* HashMap<String, u16>
    locals,       \* HashMap<String, HashMap<String, u16>>
    prev_label,   \* extract_labels: Option<String>, <<>> is None, <<s>> is Some(s)
    last_global,  \* link: Option<&String>
    changed,      \* link: bool
    index,        \* link: u16
    solved,       \* link: the Instruction last returned by i.solve, NoInstr if none
    passes,       \* number of passes of the while loop started so far (saturating)
    result,       \* what link returned: Running, Ok, Err(e, s) or Panic
    \* ---- expression evaluator on its own ----
    expr,         \* the Expression under evaluation
    value,        \* the outcome of Expression::solve on expr, or Running
    \* ---- emulator: the CPU and the host loop ----
    cpu,          \* the Cpu: registers, memory, cycle counter, queue, flags
    host,         \* the loop of main: "looping", "exited", or "off"
    raised,       \* interrupts the devices have raised so far
    sent,         \* the messages put on the interrupt queue, in order
    handled,      \* the messages handed to the interrupt handler, in order
    \* ---- encoder and decoder on their own ----
    wire,         \* what is put through: an instruction or a word stream
    back          \* what came back from the round trip, or Running

linkVars == <<ast, build, pc, cursor, bin, globals, locals, prev_label,
              last_global, changed, index, solved, passes, result>>
exprVars == <<expr, value>>
cpuVars == <<cpu, host, raised, sent, handled>>
codecVars == <<wire, back>>
nonLinkVars == <<expr, value, cpu, host, raised, sent, handled, wire, back>>
nonExprVars == <<ast, pc, cursor, bin, globals, locals, prev_label, last_global,
                 changed, index, solved, passes, result, cpu, host, raised,
                 sent, handled, wire, back>>
nonCpuVars == <<ast, build, pc, cursor, bin, globals, locals, prev_label,
                last_global, changed, index, solved, passes, result, expr, value,
                wire, back>>
nonCodecVars == <<ast, build, pc, cursor, bin, globals, locals, prev_label,
                  last_global, changed, index, solved, passes, result, expr, value,
                  cpu, host, raised, sent, handled>>

(***************************************************************************)
(* Bounds of the model.                                                    *)
(***************************************************************************)
\* longest item stream over the full item alphabet
MaxItems == 3
\* the pass counter saturates here
MaxPasses == 4

\* u16 arithmetic
WordMod == 65536
WordBits == 16

Builds == {"debug", "release"}

None == <<>>
Some(s) == <<s>>

EmptyMap == [x \in {} |-> 0]

Pow2(n) == 2 ^ n

(***************************************************************************)
(* Expression (types.rs).  An expression is a record whose field e names   *)
(* the variant.                                                            *)
(***************************************************************************)
Label(s) == [e |-> "Label", s |-> s]
LocalLabel(s) == [e |-> "LocalLabel", s |-> s]
NumU(u) == [e |-> "Num", n |-> [k |-> "U", u |-> u]]
NumI(i) == [e |-> "Num", n |-> [k |-> "I", i |-> i]]
Bin(op, l, r) == [e |-> op, l |-> l, r |-> r]

\* outcomes of a solve: Ok(v), Err(Error::e(s)) or a panic of the thread
Ok(v) == [k |-> "Ok", v |-> v]
Err(e, s) == [k |-> "Err", e |-> e, s |-> s]
Panic(why) == [k |-> "Panic", why |-> why]

\* impl From<Num> for u16
NumToU16(n) ==
    IF n.k = "U" THEN n.u
    ELSE IF n.i < 0 THEN n.i + WordMod ELSE n.i

\* u16::saturating_add in the place of wrapping_add
saturating_add(l, r) == IF l + r >= WordMod THEN WordMod - 1 ELSE l + r

wrapping_add(l, r) == IF l + r >= WordMod THEN l + r - WordMod ELSE l + r
wrapping_sub(l, r) == IF l - r < 0 THEN l - r + WordMod ELSE l - r
\* the low 16 bits of the product, by the bytes of l
wrapping_mul(l, r) ==
    ((l % 256) * r + (((l \div 256) * r) % 256) * 256) % WordMod

\* u16::wrapping_div and u16 % u16: both panic on a zero divisor
wrapping_div(l, r) ==
    IF r = 0 THEN Panic("attempt to divide by zero") ELSE Ok(l \div r)
rem_u16(l, r) ==
    IF r = 0 THEN Panic("attempt to calculate the remainder with a divisor of zero")
    ELSE Ok(l % r)

\* u16 << u16 and u16 >> u16: with overflow checks (debug) a shift amount of 16
\* or more panics; without them (release) the amount is masked to 4 bits
shl_u16(b, l, r) ==
    IF r >= WordBits
    THEN IF b = "debug" THEN Panic("attempt to shift left with overflow")
         ELSE Ok((l * Pow2(r % WordBits)) % WordMod)
    ELSE Ok((l * Pow2(r)) % WordMod)
shr_u16(b, l, r) ==
    IF r >= WordBits
    THEN IF b = "debug" THEN Panic("attempt to shift right with overflow")
         ELSE Ok(l \div Pow2(r % WordBits))
    ELSE Ok(l \div Pow2(r))

ApplyOp(b, op, l, r) ==
    CASE op = "Add" -> Ok(wrapping_add(l, r))
      [] op = "Sub" -> Ok(wrapping_sub(l, r))
      [] op = "Mul" -> Ok(wrapping_mul(l, r))
      [] op = "Div" -> wrapping_div(l, r)
      [] op = "Shr" -> shr_u16(b, l, r)
      [] op = "Shl" -> shl_u16(b, l, r)
      [] op = "Mod" -> rem_u16(l, r)

\* Expression::solve; the left operand is solved first, and try! returns its
\* error before the right operand is looked at
RECURSIVE ExprSolve(_, _, _, _)
ExprSolve(b, x, g, l) ==
    CASE x.e = "Label" ->
           IF x.s \in DOMAIN g THEN Ok(g[x.s]) ELSE Err("UnknownLabel", x.s)
      [] x.e = "LocalLabel" ->
           IF x.s \in DOMAIN l THEN Ok(l[x.s]) ELSE Err("UnknownLocalLabel", x.s)
      [] x.e = "Num" -> Ok(NumToU16(x.n))
      [] OTHER ->
           LET lv == ExprSolve(b, x.l, g, l) IN
           IF lv.k # "Ok" THEN lv
           ELSE LET rv == ExprSolve(b, x.r, g, l) IN
                IF rv.k # "Ok" THEN rv
                ELSE ApplyOp(b, x.e, lv.v, rv.v)

(***************************************************************************)
(* ParsedValue, ParsedInstruction and their solve (types.rs).  A solved    *)
(* Value has the shape of the ParsedValue with the expression x replaced   *)
(* by its word n.                                                          *)
(***************************************************************************)
PReg(r) == [v |-> "Reg", r |-> r]
PAtReg(r) == [v |-> "AtReg", r |-> r]
PAtRegPlus(r, x) == [v |-> "AtRegPlus", r |-> r, x |-> x]
PPush == [v |-> "Push"]
PPeek == [v |-> "Peek"]
PPick(x) == [v |-> "Pick", x |-> x]
PSP == [v |-> "SP"]
PPC == [v |-> "PC"]
PEX == [v |-> "EX"]
PAtAddr(x) == [v |-> "AtAddr", x |-> x]
PLitteral(x) == [v |-> "Litteral", x |-> x]

HasExpr(pv) == pv.v \in {"AtRegPlus", "Pick", "AtAddr", "Litteral"}

\* ParsedValue::solve
ValueSolve(b, pv, g, l) ==
    IF ~HasExpr(pv) THEN Ok(pv)
    ELSE LET r == ExprSolve(b, pv.x, g, l) IN
         IF r.k # "Ok" THEN r
         ELSE Ok(IF pv.v = "AtRegPlus"
                 THEN [v |-> "AtRegPlus", r |-> pv.r, n |-> r.v]
                 ELSE [v |-> pv.v, n |-> r.v])

PBasicOp(op, b, a) == [i |-> "BasicOp", op |-> op, b |-> b, a |-> a]
PSpecialOp(op, a) == [i |-> "SpecialOp", op |-> op, a |-> a]

\* ParsedInstruction::solve: operand b is solved before operand a
InstrSolve(bd, pi, g, l) ==
    IF pi.i = "BasicOp"
    THEN LET rb == ValueSolve(bd, pi.b, g, l) IN
         IF rb.k # "Ok" THEN rb
         ELSE LET ra == ValueSolve(bd, pi.a, g, l) IN
              IF ra.k # "Ok" THEN ra
              ELSE Ok([i |-> "BasicOp", op |-> pi.op, b |-> rb.v, a |-> ra.v])
    ELSE LET ra == ValueSolve(bd, pi.a, g, l) IN
         IF ra.k # "Ok" THEN ra
         ELSE Ok([i |-> "SpecialOp", op |-> pi.op, a |-> ra.v])

(***************************************************************************)
(* The instruction encoder (Instruction::encode of the types module, whose *)
(* source is not in the tree): the wire format of spec.md, sections 4.B    *)
(* and 6.                                                                  *)
(***************************************************************************)
\* a literal that operand a carries inside the instruction word: -1..=30
InlineLit(n) == n = WordMod - 1 \/ n <= 30

\* the 6-bit operand code
ValueCode(v, isA) ==
    CASE v.v = "Reg" -> v.r
      [] v.v = "AtReg" -> 8 + v.r
      [] v.v = "AtRegPlus" -> 16 + v.r
      [] v.v = "Push" -> 24
      [] v.v = "Peek" -> 25
      [] v.v = "Pick" -> 26
      [] v.v = "SP" -> 27
      [] v.v = "PC" -> 28
      [] v.v = "EX" -> 29
      [] v.v = "AtAddr" -> 30
      [] v.v = "Litteral" ->
           IF isA /\ InlineLit(v.n)
           THEN (IF v.n = WordMod - 1 THEN 32 ELSE 33 + v.n)
           ELSE 31

\* the operand's extra word, if it has one
ValueExtra(v, isA) ==
    CASE v.v \in {"AtRegPlus", "Pick", "AtAddr"} -> <<v.n>>
      [] v.v = "Litteral" -> IF isA /\ InlineLit(v.n) THEN <<>> ELSE <<v.n>>
      [] OTHER -> <<>>

\* Instruction::encode: the instruction word, then a's extra word, then b's
Encode(ins) ==
    IF ins.i = "BasicOp"
    THEN <<ValueCode(ins.a, TRUE) * 1024 + ValueCode(ins.b, FALSE) * 32 + ins.op>>
         \o ValueExtra(ins.a, TRUE) \o ValueExtra(ins.b, FALSE)
    ELSE <<ValueCode(ins.a, TRUE) * 1024 + ins.op * 32>>
         \o ValueExtra(ins.a, TRUE)

(***************************************************************************)
(* Directive and Directive::append_to (types.rs).                          *)
(***************************************************************************)
DatS(bytes) == [x |-> "S", s |-> bytes]
DatN(n) == [x |-> "N", n |-> n]
Dat(v) == [d |-> "Dat", v |-> v]
Org(n) == [d |-> "Org", n |-> n]
Global == [d |-> "Global"]
Text == [d |-> "Text"]
BSS == [d |-> "BSS"]

Zeros(n) == [i \in 1..n |-> 0]

\* a string emitted without the 0 that ends it
DatItemWordsUnterminated(x) == IF x.x = "S" THEN x.s ELSE <<x.n>>

\* the words one DatItem appends: a string's bytes and one 0, or the number
DatItemWords(x) == IF x.x = "S" THEN x.s \o <<0>> ELSE <<x.n>>

RECURSIVE DatWords(_)
DatWords(v) == IF v = <<>> THEN <<>> ELSE DatItemWords(Head(v)) \o DatWords(Tail(v))

\* Directive::append_to: the buffer afterwards and the returned count
append_to(d, buf) ==
    CASE d.d = "Dat" -> [bin |-> buf \o DatWords(d.v),
                         n |-> Len(DatWords(d.v)) % WordMod]
      [] d.d = "Org" -> [bin |-> buf \o Zeros(d.n), n |-> d.n]
      [] OTHER -> [bin |-> buf, n |-> 0]

\* index += n on a u16: an overflow panics with overflow checks and wraps without
AddIndex(b, i, n) ==
    IF i + n >= WordMod
    THEN IF b = "debug" THEN Panic("attempt to add with overflow")
         ELSE Ok((i + n) % WordMod)
    ELSE Ok(i + n)

Filler == 48815  \* 0xbeaf

\* the words written after the last word of the buffer, whatever the index
EmitWordsAtEnd(buf, i, words) == buf \o words

\* linker.rs 50-52: reserve three words at the end, encode at bin[index..],
\* truncate to the new index
EmitWords(buf, i, words) ==
    LET ext == buf \o <<Filler, Filler, Filler>>
        w == Len(words)
        put == [k \in 1..Len(ext) |->
                  IF k > i /\ k <= i + w THEN words[k - i] ELSE ext[k]]
    IN  SubSeq(put, 1, i + w)

(***************************************************************************)
(* ParsedItem (types.rs).                                                  *)
(***************************************************************************)
Directive(d) == [t |-> "Directive", d |-> d]
LabelDecl(s) == [t |-> "LabelDecl", s |-> s]
LocalLabelDecl(s) == [t |-> "LocalLabelDecl", s |-> s]
ParsedInstruction(i) == [t |-> "ParsedInstruction", i |-> i]
Comment == [t |-> "Comment"]

(***************************************************************************)
(* The item streams link is run on.                                        *)
(***************************************************************************)
SetA(x) == ParsedInstruction(PBasicOp(1, PReg(0), PLitteral(x)))

Items ==
    { LabelDecl("g"), LabelDecl("h"), LocalLabelDecl("l"),
      Directive(Dat(<<DatS(<<72, 105>>), DatN(7)>>)),
      Directive(Org(2)),
      Directive(Global),
      Comment,
      SetA(Label("g")),                                 \* SET A, g
      SetA(LocalLabel("l")),                            \* SET A, .l
      SetA(Bin("Sub", NumU(32), Label("h"))),           \* SET A, 32 - h
      SetA(Bin("Add", Label("h"), NumU(30))),           \* SET A, h + 30
      ParsedInstruction(PSpecialOp(1, PLitteral(Label("u")))),   \* JSR u
      ParsedInstruction(PBasicOp(1, PAtRegPlus(0, Label("h")),
                                 PLitteral(NumU(4096)))),        \* SET [A + h], 0x1000
      SetA(Bin("Mod", NumU(8), Label("g"))),            \* SET A, 8 % g
      SetA(Bin("Shl", NumU(1), NumU(16))) }             \* SET A, 1 << 16

\* the items of the longer streams: label declarations, one reference, one word
ScopeItems ==
    { LabelDecl("g"), LabelDecl("h"), LocalLabelDecl("l"),
      SetA(LocalLabel("l")), Directive(Dat(<<DatN(1)>>)) }

SeqsUpTo(S, n) == UNION {[1..k -> S] : k \in 0..n}

Programs == SeqsUpTo(Items, MaxItems) \cup SeqsUpTo(ScopeItems, MaxItems + 2)

Running == [k |-> "Running"]
NoInstr == [i |-> "None"]

Min(a, b) == IF a < b THEN a ELSE b

\* some fixed element of a non-empty set of names
SomeName(S) == CHOOSE s \in S : TRUE

(***************************************************************************)
(* extract_labels (linker.rs 62-96), one action per item of its loop.      *)
(***************************************************************************)
Item == ast[cursor]

\* 0xffff standing for a label that has no address yet
NotYetPlaced(s) == WordMod - 1

\* linker.rs 76 and 88: the address the pre-pass gives label s
InitialAddress(s) == 0

\* linker.rs 71-79
ExtractLabelDecl ==
    /\ pc = "extract" /\ cursor <= Len(ast) /\ Item.t = "LabelDecl"
    /\ prev_label' = Some(Item.s)
    /\ IF Item.s \in DOMAIN globals
       THEN /\ result' = Err("DuplicatedLabel", Item.s)
            /\ pc' = "done"
            /\ UNCHANGED <<globals, locals, cursor>>
       ELSE /\ globals' = globals @@ (Item.s :> InitialAddress(Item.s))
            /\ locals' = locals @@ (Item.s :> EmptyMap)
            /\ cursor' = cursor + 1
            /\ UNCHANGED <<result, pc>>
    /\ UNCHANGED nonLinkVars
    /\ UNCHANGED <<ast, build, bin, last_global, changed, index, solved, passes>>

\* one table of locals for the whole stream, in the place of one per global
LocalDeclaredAnywhere(s, scope, locs) == \E g \in DOMAIN locs : s \in DOMAIN locs[g]

\* whether extract_labels rejects a second declaration of local s: it looks
\* the name up in the table of the global named by prev_label
LocalDeclared(s, scope, locs) == s \in DOMAIN locs[scope]

\* linker.rs 80-90
ExtractLocalLabelDecl ==
    /\ pc = "extract" /\ cursor <= Len(ast) /\ Item.t = "LocalLabelDecl"
    /\ IF prev_label = None
       THEN /\ result' = Err("LocalBeforeGlobal", Item.s)
            /\ pc' = "done"
            /\ UNCHANGED <<locals, cursor>>
       ELSE IF LocalDeclared(Item.s, prev_label[1], locals)
       THEN /\ result' = Err("DuplicatedLocalLabel", Item.s)
            /\ pc' = "done"
            /\ UNCHANGED <<locals, cursor>>
       ELSE /\ locals' = [locals EXCEPT ![prev_label[1]] =
                                         @ @@ (Item.s :> InitialAddress(Item.s))]
            /\ cursor' = cursor + 1
            /\ UNCHANGED <<result, pc>>
    /\ UNCHANGED nonLinkVars
    /\ UNCHANGED <<ast, build, bin, globals, prev_label, last_global, changed,
                   index, solved, passes>>

\* linker.rs 91
ExtractOther ==
    /\ pc = "extract" /\ cursor <= Len(ast)
    /\ Item.t \notin {"LabelDecl", "LocalLabelDecl"}
    /\ cursor' = cursor + 1
    /\ UNCHANGED nonLinkVars
    /\ UNCHANGED <<ast, build, pc, bin, globals, locals, prev_label, last_global,
                   changed, index, solved, passes, result>>

\* linker.rs 95 and 17-19: extract_labels returns Ok, link sets up its loop
ExtractDone ==
    /\ pc = "extract" /\ cursor > Len(ast)
    /\ pc' = "loop"
    /\ last_global' = None
    /\ changed' = TRUE
    /\ UNCHANGED nonLinkVars
    /\ UNCHANGED <<ast, build, cursor, bin, globals, locals, prev_label, index,
                   solved, passes, result>>

(***************************************************************************)
(* link (linker.rs 14-60): the while loop, one action per item of a pass.  *)
(***************************************************************************)
\* linker.rs 21-24: the loop condition holds, a pass starts
PassStart ==
    /\ pc = "loop" /\ changed
    /\ changed' = FALSE
    /\ index' = 0
    /\ cursor' = 1
    /\ pc' = "pass"
    /\ passes' = Min(passes + 1, MaxPasses)
    /\ UNCHANGED nonLinkVars
    /\ UNCHANGED <<ast, build, bin, globals, locals, prev_label, last_global,
                   solved, result>>

\* linker.rs 21 and 59: the loop condition fails, link returns Ok(bin)
ReturnOk ==
    /\ pc = "loop" /\ ~changed
    /\ result' = Ok(bin)
    /\ pc' = "done"
    /\ UNCHANGED nonLinkVars
    /\ UNCHANGED <<ast, build, cursor, bin, globals, locals, prev_label,
                   last_global, changed, index, solved, passes>>

\* linker.rs 26
EmitDirective ==
    /\ pc = "pass" /\ cursor <= Len(ast) /\ Item.t = "Directive"
    /\ LET r == append_to(Item.d, bin)
           i == AddIndex(build, index, r.n)
       IN  /\ bin' = r.bin
           /\ IF i.k = "Ok"
              THEN index' = i.v /\ cursor' = cursor + 1 /\ UNCHANGED <<pc, result>>
              ELSE result' = i /\ pc' = "done" /\ UNCHANGED <<index, cursor>>
    /\ UNCHANGED nonLinkVars
    /\ UNCHANGED <<ast, build, globals, locals, prev_label, last_global, changed,
                   solved, passes>>

\* the comparison written with < in the place of !=
MovedForward(ptr, i) == ptr < i

\* linker.rs 29 and 40: whether the label's address is to be updated
Moved(ptr, i) == ptr # i

\* linker.rs 27-34
EmitLabelDecl ==
    /\ pc = "pass" /\ cursor <= Len(ast) /\ Item.t = "LabelDecl"
    /\ IF Moved(globals[Item.s], index)
       THEN globals' = [globals EXCEPT ![Item.s] = index] /\ changed' = TRUE
       ELSE UNCHANGED <<globals, changed>>
    /\ last_global' = Some(Item.s)
    /\ cursor' = cursor + 1
    /\ UNCHANGED nonLinkVars
    /\ UNCHANGED <<ast, build, pc, bin, locals, prev_label, index, solved,
                   passes, result>>

\* linker.rs 35-44
EmitLocalLabelDecl ==
    /\ pc = "pass" /\ cursor <= Len(ast) /\ Item.t = "LocalLabelDecl"
    /\ IF last_global = None \/ Item.s \notin DOMAIN locals[last_global[1]]
       THEN /\ result' = Panic("called Option::unwrap() on a None value")
            /\ pc' = "done"
            /\ UNCHANGED <<locals, changed, cursor>>
       ELSE /\ IF Moved(locals[last_global[1]][Item.s], index)
               THEN /\ changed' = TRUE
                    /\ locals' = [locals EXCEPT ![last_global[1]][Item.s] = index]
               ELSE UNCHANGED <<locals, changed>>
            /\ cursor' = cursor + 1
            /\ UNCHANGED <<pc, result>>
    /\ UNCHANGED nonLinkVars
    /\ UNCHANGED <<ast, build, bin, globals, prev_label, last_global, index,
                   solved, passes>>

\* the locals of the first global of the table, whatever the cursor says
ScopeOfFirstGlobal(lg, locs) ==
    IF lg = None THEN EmptyMap ELSE locs[SomeName(DOMAIN locs)]

\* linker.rs 46-49: the local table an instruction is solved against
Scope(lg, locs) == IF lg = None THEN EmptyMap ELSE locs[lg[1]]

\* linker.rs 45-53
EmitInstruction ==
    /\ pc = "pass" /\ cursor <= Len(ast) /\ Item.t = "ParsedInstruction"
    /\ LET r == InstrSolve(build, Item.i, globals, Scope(last_global, locals))
       IN  IF r.k # "Ok"
           THEN result' = r /\ pc' = "done" /\ UNCHANGED <<bin, index, cursor, solved>>
           ELSE LET words == Encode(r.v)
                    i == AddIndex(build, index, Len(words))
                IN  /\ solved' = r.v
                    /\ IF index > Len(bin) + 3
                       THEN /\ result' = Panic("slice index starts out of range")
                            /\ pc' = "done"
                            /\ UNCHANGED <<bin, index, cursor>>
                       ELSE IF i.k # "Ok"
                       THEN /\ result' = i
                            /\ pc' = "done"
                            /\ UNCHANGED <<bin, index, cursor>>
                       ELSE /\ bin' = EmitWords(bin, index, words)
                            /\ index' = i.v
                            /\ cursor' = cursor + 1
                            /\ UNCHANGED <<pc, result>>
    /\ UNCHANGED nonLinkVars
    /\ UNCHANGED <<ast, build, globals, locals, prev_label, last_global, changed,
                   passes>>

\* linker.rs 54
EmitOther ==
    /\ pc = "pass" /\ cursor <= Len(ast) /\ Item.t = "Comment"
    /\ cursor' = cursor + 1
    /\ UNCHANGED nonLinkVars
    /\ UNCHANGED <<ast, build, pc, bin, globals, locals, prev_label, last_global,
                   changed, index, solved, passes, result>>

\* linker.rs 24 and 56: the for loop is over, back to the loop condition
PassEnd ==
    /\ pc = "pass" /\ cursor > Len(ast)
    /\ pc' = "loop"
    /\ UNCHANGED nonLinkVars
    /\ UNCHANGED <<ast, build, cursor, bin, globals, locals, prev_label,
                   last_global, changed, index, solved, passes, result>>

LinkInit ==
    /\ ast \in Programs
    /\ build \in Builds
    /\ pc = "extract"
    /\ cursor = 1
    /\ bin = <<>>
    /\ globals = EmptyMap
    /\ locals = EmptyMap
    /\ prev_label = None
    /\ last_global = None
    /\ changed = TRUE
    /\ index = 0
    /\ solved = NoInstr
    /\ passes = 0
    /\ result = Running

(***************************************************************************)
(* The CPU interpreter (spec.md 3, 4.A, 4.E, 5 and 6; the source of the    *)
(* cpu module is not in the tree).  cpu is the Cpu as a record:            *)
(*   reg (A B C X Y Z I J as 0..7), PC, SP, EX, IA, mem (the words that    *)
(*   were written, every other word being 0), cycles, queue, queueing,     *)
(*   skip.                                                                 *)
(***************************************************************************)
\* budget of a run, in cycles: the host loop is followed up to here
MaxCycles == 8
\* longest ROM, in instructions
MaxRomLen == 3
\* interrupts the devices raise in a run
MaxRaised == 1
\* devices attached to the bus
NumDevices == 1
\* capacity of the interrupt queue
QueueCapacity == 256

Rd(m, a) == IF a \in DOMAIN m THEN m[a] ELSE 0
Wr(m, a, v) == [x \in DOMAIN m \cup {a} |-> IF x = a THEN v ELSE m[x]]

Wrap(n) == n % WordMod
Signed(x) == IF x >= 32768 THEN x - WordMod ELSE x

RECURSIVE BitAnd(_, _, _)
BitAnd(x, y, n) ==
    IF n = 0 THEN 0
    ELSE (x % 2) * (y % 2) + 2 * BitAnd(x \div 2, y \div 2, n - 1)

\* 4.A: the opcodes
BasicOps == (1..27 \ {24, 25}) \cup {30, 31}
SpecialOps == {1, 8, 9, 10, 11, 12, 16, 17, 18}
Conditionals == 16..23

\* 6: the operand codes that take the next word
NextWord(code) == code \in (16..23) \cup {26, 30, 31}

\* 4.E step 2: the instruction at p, with its operand words and its length
Decode(m, p) ==
    LET w == Rd(m, p)
        o == w % 32
        bb == (w \div 32) % 32
        aa == w \div 1024
        an == IF NextWord(aa) THEN 1 ELSE 0
        bn == IF o # 0 /\ NextWord(bb) THEN 1 ELSE 0
    IN  [basic |-> o # 0,
         op |-> IF o # 0 THEN o ELSE bb,
         a |-> aa,
         b |-> bb,
         aw |-> IF an = 1 THEN Rd(m, Wrap(p + 1)) ELSE 0,
         bw |-> IF bn = 1 THEN Rd(m, Wrap(p + 1 + an)) ELSE 0,
         len |-> 1 + an + bn]

ValidOp(d) == IF d.basic THEN d.op \in BasicOps ELSE d.op \in SpecialOps
IsConditional(d) == d.basic /\ d.op \in Conditionals

\* the newest message delivered in the place of the oldest
DispatchNewest(c) ==
    IF c.queue # <<>> /\ c.IA # 0 /\ ~c.queueing
    THEN LET s1 == Wrap(c.SP - 1)
             s2 == Wrap(c.SP - 2)
         IN  [c EXCEPT !.queue = SubSeq(@, 1, Len(@) - 1),
                       !.mem = Wr(Wr(@, s1, c.PC), s2, c.reg[0]),
                       !.SP = s2,
                       !.PC = c.IA,
                       !.reg = [@ EXCEPT ![0] = c.queue[Len(c.queue)]]]
    ELSE c

\* 4.E step 1: deliver one queued interrupt
Dispatch(c) ==
    IF c.queue # <<>> /\ c.IA # 0 /\ ~c.queueing
    THEN LET s1 == Wrap(c.SP - 1)
             s2 == Wrap(c.SP - 2)
         IN  [c EXCEPT !.queue = Tail(@),
                       !.mem = Wr(Wr(@, s1, c.PC), s2, c.reg[0]),
                       !.SP = s2,
                       !.PC = c.IA,
                       !.reg = [@ EXCEPT ![0] = Head(c.queue)]]
    ELSE c

\* 4.E step 4: where an operand lives; push/pop moves SP
Resolve(c, code, w, isA) ==
    CASE code \in 0..7 -> [c |-> c, k |-> "reg", at |-> code]
      [] code \in 8..15 -> [c |-> c, k |-> "mem", at |-> c.reg[code - 8]]
      [] code \in 16..23 -> [c |-> c, k |-> "mem", at |-> Wrap(c.reg[code - 16] + w)]
      [] code = 24 ->
           IF isA
           THEN [c |-> [c EXCEPT !.SP = Wrap(@ + 1)], k |-> "mem", at |-> c.SP]
           ELSE [c |-> [c EXCEPT !.SP = Wrap(@ - 1)], k |-> "mem", at |-> Wrap(c.SP - 1)]
      [] code = 25 -> [c |-> c, k |-> "mem", at |-> c.SP]
      [] code = 26 -> [c |-> c, k |-> "mem", at |-> Wrap(c.SP + w)]
      [] code = 27 -> [c |-> c, k |-> "SP", at |-> 0]
      [] code = 28 -> [c |-> c, k |-> "PC", at |-> 0]
      [] code = 29 -> [c |-> c, k |-> "EX", at |-> 0]
      [] code = 30 -> [c |-> c, k |-> "mem", at |-> w]
      [] code = 31 -> [c |-> c, k |-> "lit", at |-> w]
      [] OTHER -> [c |-> c, k |-> "lit", at |-> Wrap(code - 33)]

Load(c, loc) ==
    CASE loc.k = "reg" -> c.reg[loc.at]
      [] loc.k = "mem" -> Rd(c.mem, loc.at)
      [] loc.k = "SP" -> c.SP
      [] loc.k = "PC" -> c.PC
      [] loc.k = "EX" -> c.EX
      [] OTHER -> loc.at

\* writing to a literal is a silent no-op
Store(c, loc, v) ==
    CASE loc.k = "reg" -> [c EXCEPT !.reg = [@ EXCEPT ![loc.at] = v]]
      [] loc.k = "mem" -> [c EXCEPT !.mem = Wr(@, loc.at, v)]
      [] loc.k = "SP" -> [c EXCEPT !.SP = v]
      [] loc.k = "PC" -> [c EXCEPT !.PC = v]
      [] loc.k = "EX" -> [c EXCEPT !.EX = v]
      [] OTHER -> c

\* the predicate of a conditional on b and a
Predicate(op, vb, va) ==
    CASE op = 16 -> BitAnd(vb, va, WordBits) # 0        \* IFB
      [] op = 17 -> BitAnd(vb, va, WordBits) = 0        \* IFC
      [] op = 18 -> vb = va                             \* IFE
      [] op = 19 -> vb # va                             \* IFN
      [] op = 20 -> vb > va                             \* IFG
      [] op = 21 -> Signed(vb) > Signed(va)             \* IFA
      [] op = 22 -> vb < va                             \* IFL
      [] op = 23 -> Signed(vb) < Signed(va)             \* IFU

\* the opcodes whose effect the model carries out; its ROMs use no other
ExecBasicOps == {1, 2, 3, 10, 11, 12, 30, 31} \cup Conditionals
ExecSpecialOps == {1, 8, 9, 10, 11, 12, 16}

BaseCycles(d) ==
    IF d.basic
    THEN (IF d.op \in {1, 10, 11, 12} THEN 1 ELSE 2)
    ELSE CASE d.op \in {9, 10} -> 1
           [] d.op \in {12, 16} -> 2
           [] d.op \in {1, 11} -> 3
           [] OTHER -> 4

\* a full queue silently drops its oldest message to take the new one
EnqueueDropOldest(c, msg) ==
    IF Len(c.queue) >= QueueCapacity
    THEN [cpu |-> [c EXCEPT !.queue = Append(Tail(@), msg)], ret |-> Ok(0)]
    ELSE [cpu |-> [c EXCEPT !.queue = Append(@, msg)], ret |-> Ok(0)]

\* enqueue an interrupt message; a full queue is the catch-fire fault
Enqueue(c, msg) ==
    IF Len(c.queue) >= QueueCapacity
    THEN [cpu |-> c, ret |-> Err("QueueOverflow", "")]
    ELSE [cpu |-> [c EXCEPT !.queue = Append(@, msg)], ret |-> Ok(0)]

\* 4.E steps 4 and 5 for a basic op
ExecBasic(c0, d) ==
    LET ra == Resolve(c0, d.a, d.aw, TRUE)
        rb == Resolve(ra.c, d.b, d.bw, FALSE)
        c == rb.c
        va == Load(c0, ra)
        vb == Load(c, rb)
    IN  CASE d.op = 1 -> Store(c, rb, va)
          [] d.op = 2 ->
               [Store(c, rb, Wrap(vb + va)) EXCEPT
                   !.EX = IF vb + va >= WordMod THEN 1 ELSE 0]
          [] d.op = 3 ->
               [Store(c, rb, Wrap(vb - va)) EXCEPT
                   !.EX = IF vb < va THEN WordMod - 1 ELSE 0]
          [] d.op = 10 -> Store(c, rb, BitAnd(vb, va, WordBits))
          [] d.op = 11 -> Store(c, rb, vb + va - BitAnd(vb, va, WordBits))
          [] d.op = 12 -> Store(c, rb, vb + va - 2 * BitAnd(vb, va, WordBits))
          [] d.op \in Conditionals ->
               LET t == Predicate(d.op, vb, va)
               IN  [c EXCEPT !.skip = ~t,
                             !.cycles = IF t THEN @ ELSE @ + 1]
          [] d.op = 30 ->
               LET c1 == Store(c, rb, va)
               IN  [c1 EXCEPT !.reg = [@ EXCEPT ![6] = Wrap(@ + 1), ![7] = Wrap(@ + 1)]]
          [] d.op = 31 ->
               LET c1 == Store(c, rb, va)
               IN  [c1 EXCEPT !.reg = [@ EXCEPT ![6] = Wrap(@ - 1), ![7] = Wrap(@ - 1)]]

\* 4.E steps 4 and 5 for a special op
ExecSpecial(c0, d) ==
    LET ra == Resolve(c0, d.a, d.aw, TRUE)
        c == ra.c
        va == Load(c0, ra)
    IN  CASE d.op = 1 ->                                          \* JSR
               [cpu |-> [c EXCEPT !.SP = Wrap(@ - 1),
                                  !.mem = Wr(@, Wrap(c.SP - 1), c.PC),
                                  !.PC = va],
                ret |-> Ok(0)]
          [] d.op = 8 -> Enqueue(c, va)                           \* INT
          [] d.op = 9 -> [cpu |-> Store(c, ra, c.IA), ret |-> Ok(0)]      \* IAG
          [] d.op = 10 -> [cpu |-> [c EXCEPT !.IA = va], ret |-> Ok(0)]   \* IAS
          [] d.op = 11 ->                                         \* RFI
               [cpu |-> [c EXCEPT !.queueing = FALSE,
                                  !.reg = [@ EXCEPT ![0] = Rd(c.mem, c.SP)],
                                  !.PC = Rd(c.mem, Wrap(c.SP + 1)),
                                  !.SP = Wrap(@ + 2)],
                ret |-> Ok(0)]
          [] d.op = 12 -> [cpu |-> [c EXCEPT !.queueing = (va # 0)], ret |-> Ok(0)] \* IAQ
          [] d.op = 16 -> [cpu |-> Store(c, ra, NumDevices), ret |-> Ok(0)]        \* HWN

\* 4.E, the algorithm per tick: the Cpu afterwards and what tick returns
Tick(c0) ==
    LET c1 == Dispatch(c0)
        d == Decode(c1.mem, c1.PC)
        c2 == [c1 EXCEPT !.PC = Wrap(@ + d.len)]
    IN  IF ~ValidOp(d)
        THEN [cpu |-> c2, ret |-> Err("InvalidOpcode", "")]
        ELSE IF c2.skip
        THEN [cpu |-> [c2 EXCEPT !.skip = IsConditional(d), !.cycles = @ + 1],
              ret |-> Ok(1)]
        ELSE LET n == BaseCycles(d) + (d.len - 1)
             IN  IF d.basic
                 THEN LET c3 == ExecBasic(c2, d)
                      IN  [cpu |-> [c3 EXCEPT !.cycles = @ + n],
                           ret |-> Ok(c3.cycles + n - c2.cycles)]
                 ELSE LET r == ExecSpecial(c2, d)
                      IN  IF r.ret.k = "Ok"
                          THEN [cpu |-> [r.cpu EXCEPT !.cycles = @ + n], ret |-> Ok(n)]
                          ELSE r

\* power-on with the ROM loaded at 0
PowerOn(rom) ==
    [reg |-> [r \in 0..7 |-> 0], PC |-> 0, SP |-> 0, EX |-> 0, IA |-> 0,
     mem |-> [a \in 0..(Len(rom) - 1) |-> rom[a + 1]],
     cycles |-> 0, queue |-> <<>>, queueing |-> FALSE, skip |-> FALSE]

\* the instructions of the model's ROMs
VReg(r) == [v |-> "Reg", r |-> r]
VLit(n) == [v |-> "Litteral", n |-> n]
VAtAddr(n) == [v |-> "AtAddr", n |-> n]
Basic(op, b, a) == [i |-> "BasicOp", op |-> op, b |-> b, a |-> a]
Special(op, a) == [i |-> "SpecialOp", op |-> op, a |-> a]

RomInstrs ==
    { Basic(18, VReg(0), VLit(0)),             \* IFE A, 0
      Basic(19, VReg(0), VLit(0)),             \* IFN A, 0
      Basic(20, VAtAddr(32), VLit(4096)),      \* IFG [0x20], 0x1000
      Basic(1, VReg(0), VLit(1)),              \* SET A, 1
      Basic(2, VAtAddr(32), VLit(4096)),       \* ADD [0x20], 0x1000
      Special(10, VLit(2)),                    \* IAS 2
      Special(8, VLit(5)),                     \* INT 5
      Special(11, VLit(0)),                    \* RFI 0
      Special(12, VLit(1)) }                   \* IAQ 1

RECURSIVE Assemble(_)
Assemble(is) == IF is = <<>> THEN <<>> ELSE Encode(Head(is)) \o Assemble(Tail(is))

Roms == {Assemble(is) : is \in SeqsUpTo(RomInstrs, MaxRomLen)}

DeviceMessage == 7

CpuIdle ==
    /\ cpu = PowerOn(<<>>) /\ host = "off" /\ raised = 0
    /\ sent = <<>> /\ handled = <<>>

LinkIdle ==
    /\ ast = <<>> /\ pc = "idle" /\ cursor = 1 /\ bin = <<>>
    /\ globals = EmptyMap /\ locals = EmptyMap /\ prev_label = None
    /\ last_global = None /\ changed = TRUE /\ index = 0 /\ solved = NoInstr
    /\ passes = 0 /\ result = Running

ExprIdle == expr = NumU(0) /\ value = Running

CodecIdle == wire = [k |-> "none"] /\ back = Running

\* emulator.rs 50-53: the Cpu with the ROM loaded, handed to the host loop
CpuInit ==
    /\ LinkIdle /\ build = "release"
    /\ ExprIdle
    /\ CodecIdle
    /\ cpu \in {PowerOn(rom) : rom \in Roms}
    /\ host = "looping"
    /\ raised = 0
    /\ sent = <<>>
    /\ handled = <<>>

\* the loop left on the first Ok in the place of the first Err
BreakOnOk(ret) == IF ret.k = "Ok" THEN "exited" ELSE "looping"

\* emulator.rs 56-62: Ok(_) => (), Err(e) => break
LoopAfter(ret) == IF ret.k = "Ok" THEN "looping" ELSE "exited"

\* whether the tick starts by handing a queued message to the handler
Delivers(c) == Dispatch(c).queue # c.queue

\* emulator.rs 55-63: one turn of the loop of main
HostTick ==
    /\ host = "looping" /\ cpu.cycles < MaxCycles
    /\ LET t == Tick(cpu)
           c1 == Dispatch(cpu)
       IN  /\ cpu' = t.cpu
           /\ host' = LoopAfter(t.ret)
           /\ handled' = IF Delivers(cpu) THEN Append(handled, c1.reg[0])
                         ELSE handled
           /\ sent' = IF Len(t.cpu.queue) > Len(c1.queue)
                      THEN Append(sent, t.cpu.queue[Len(t.cpu.queue)])
                      ELSE sent
    /\ UNCHANGED raised
    /\ UNCHANGED nonCpuVars

\* 5: between two ticks a device raises an interrupt on the same queue
DeviceInterrupt ==
    /\ host = "looping" /\ raised < MaxRaised
    /\ LET r == Enqueue(cpu, DeviceMessage)
       IN  /\ cpu' = r.cpu
           /\ host' = LoopAfter(r.ret)
           /\ sent' = IF r.ret.k = "Ok" THEN Append(sent, DeviceMessage) ELSE sent
    /\ raised' = raised + 1
    /\ UNCHANGED handled
    /\ UNCHANGED nonCpuVars

CpuNext == HostTick \/ DeviceInterrupt

\* free slots the queue has at most when the run is picked up
Headroom == 2

\* the Cpu after the devices have raised k interrupts, k within the capacity:
\* each was appended to the queue
Flooded(c, k) == [c EXCEPT !.queue = @ \o [i \in 1..k |-> DeviceMessage]]

\* the emulator picked up before its first tick, the devices having raised
\* all but a few of the interrupts the queue takes (IA is 0 since power-on,
\* so none was delivered)
FloodInit ==
    /\ LinkIdle /\ build = "release"
    /\ ExprIdle
    /\ CodecIdle
    /\ cpu \in {Flooded(PowerOn(rom), QueueCapacity - free) :
                   rom \in Roms, free \in 0..Headroom}
    /\ host = "looping"
    /\ raised = 0
    /\ sent = cpu.queue
    /\ handled = <<>>

(***************************************************************************)
(* Expression::solve on its own: one expression, solved once against a     *)
(* fixed pair of tables.                                                   *)
(***************************************************************************)
ExprNums ==
    {NumU(u) : u \in {0, 1, 3, 15, 16, 17, 255, 256, 32768, 65535}}
    \cup {NumI(i) : i \in {-1, -2, -32768}}

ExprLeaves == ExprNums \cup {Label("g"), Label("u"), LocalLabel("l"), LocalLabel("m")}

ExprOps == {"Add", "Sub", "Mul", "Div", "Shr", "Shl", "Mod"}

ExprInputs ==
    ExprLeaves \cup {Bin(op, l, r) : op \in ExprOps, l \in ExprLeaves, r \in ExprLeaves}

ExprGlobals == ("g" :> 40000)
ExprLocals == ("l" :> 0)

ExprInit ==
    /\ LinkIdle
    /\ CpuIdle
    /\ CodecIdle
    /\ build \in Builds
    /\ expr \in ExprInputs
    /\ value = Running

\* Expression::solve (types.rs 152-193) on expr
ExprEval ==
    /\ pc = "idle" /\ value = Running
    /\ value' = ExprSolve(build, expr, ExprGlobals, ExprLocals)
    /\ UNCHANGED <<expr, build>>
    /\ UNCHANGED nonExprVars

(***************************************************************************)
(* Directive::append_to on its own: one directive appended to one buffer.  *)
(* ast holds the directive, bin the buffer, index the returned count.      *)
(***************************************************************************)
\* longest dat, in items
MaxDatItems == 2
\* longest buffer append_to is called on, and largest org
MaxBufferLen == 2

AppendDatItems == {DatS(<<>>), DatS(<<72, 105>>), DatN(7), DatN(0)}

AppendDirectives ==
    {Dat(v) : v \in SeqsUpTo(AppendDatItems, MaxDatItems)}
    \cup {Org(n) : n \in 0..MaxBufferLen}
    \cup {Global, Text, BSS}

AppendBuffers == SeqsUpTo({0, 7, Filler}, MaxBufferLen)

AppendInit ==
    /\ ast \in {<<Directive(d)>> : d \in AppendDirectives}
    /\ bin \in AppendBuffers
    /\ build = "release"
    /\ pc = "append"
    /\ cursor = 1 /\ globals = EmptyMap /\ locals = EmptyMap /\ prev_label = None
    /\ last_global = None /\ changed = TRUE /\ index = 0 /\ solved = NoInstr
    /\ passes = 0 /\ result = Running
    /\ ExprIdle /\ CpuIdle /\ CodecIdle

\* types.rs 23-51: d.append_to(&mut bin), the count kept in index
AppendTo ==
    /\ pc = "append"
    /\ LET r == append_to(ast[1].d, bin)
       IN  bin' = r.bin /\ index' = r.n
    /\ pc' = "appended"
    /\ UNCHANGED nonLinkVars
    /\ UNCHANGED <<ast, build, cursor, globals, locals, prev_label, last_global,
                   changed, solved, passes, result>>

(***************************************************************************)
(* The decoder (spec.md 4.B and 6; the disassembler feeds it the words of  *)
(* an image), and the encoder and the decoder put back to back.            *)
(***************************************************************************)
\* 6: the operand a 6-bit code and its next word stand for
ValueOf(code, w) ==
    CASE code \in 0..7 -> [v |-> "Reg", r |-> code]
      [] code \in 8..15 -> [v |-> "AtReg", r |-> code - 8]
      [] code \in 16..23 -> [v |-> "AtRegPlus", r |-> code - 16, n |-> w]
      [] code = 24 -> [v |-> "Push"]
      [] code = 25 -> [v |-> "Peek"]
      [] code = 26 -> [v |-> "Pick", n |-> w]
      [] code = 27 -> [v |-> "SP"]
      [] code = 28 -> [v |-> "PC"]
      [] code = 29 -> [v |-> "EX"]
      [] code = 30 -> [v |-> "AtAddr", n |-> w]
      [] code = 31 -> [v |-> "Litteral", n |-> w]
      [] OTHER -> [v |-> "Litteral", n |-> Wrap(code - 33)]

\* the instruction at the head of a word stream
DecodeInstr(ws) ==
    LET d == Decode([a \in 0..(Len(ws) - 1) |-> ws[a + 1]], 0)
    IN  IF d.basic
        THEN Basic(d.op, ValueOf(d.b, d.bw), ValueOf(d.a, d.aw))
        ELSE Special(d.op, ValueOf(d.a, d.aw))

\* the next words and literals the round trips are run on
CodecWords == {0, 30, 31, 65535}

\* every operand kind
CodecValues ==
    {ValueOf(code, w) : code \in 0..63, w \in CodecWords}

\* the instruction model: SET with every pair of operands, every other opcode
\* with every operand kind in a (b being B) and in b (a being the literal 30)
CodecInstrs ==
    {Basic(1, b, a) : b \in CodecValues, a \in CodecValues}
    \cup {Basic(o, VReg(1), a) : o \in BasicOps, a \in CodecValues}
    \cup {Basic(o, b, VLit(30)) : o \in BasicOps, b \in CodecValues}
    \cup {Special(o, a) : o \in SpecialOps, a \in CodecValues}

Extras(code) == IF NextWord(code) THEN {<<n>> : n \in CodecWords} ELSE {<<>>}

\* a well-formed word stream of one instruction: the instruction word and the
\* next words its operand codes call for, a's first
BasicStreams(o, b, a) ==
    {<<a * 1024 + b * 32 + o>> \o xa \o xb : xa \in Extras(a), xb \in Extras(b)}

\* SET with every pair of operand codes, every other opcode with every code in
\* a (b being B) and in b (a being a next-word literal)
CodecStreams ==
    UNION {BasicStreams(1, b, a) : b \in 0..31, a \in 0..63}
    \cup UNION {BasicStreams(o, 1, a) : o \in BasicOps, a \in 0..63}
    \cup UNION {BasicStreams(o, b, 31) : o \in BasicOps, b \in 0..31}
    \cup UNION { {<<a * 1024 + o * 32>> \o xa : xa \in Extras(a)} :
                   o \in SpecialOps, a \in 0..63 }

CodecInit ==
    /\ LinkIdle /\ build = "release"
    /\ ExprIdle
    /\ CpuIdle
    /\ wire \in {[k |-> "instruction", i |-> i] : i \in CodecInstrs}
               \cup {[k |-> "words", w |-> w] : w \in CodecStreams}
    /\ back = Running

\* decode(encode(i))
RoundTripInstruction ==
    /\ pc = "idle" /\ wire.k = "instruction" /\ back = Running
    /\ back' = Ok(DecodeInstr(Encode(wire.i)))
    /\ UNCHANGED wire
    /\ UNCHANGED nonCodecVars

\* encode(decode(w))
RoundTripWords ==
    /\ pc = "idle" /\ wire.k = "words" /\ back = Running
    /\ back' = Ok(Encode(DecodeInstr(wire.w)))
    /\ UNCHANGED wire
    /\ UNCHANGED nonCodecVars

CodecNext == RoundTripInstruction \/ RoundTripWords

Init == LinkInit /\ ExprIdle /\ CpuIdle /\ CodecIdle

Next ==
    \/ ExtractLabelDecl \/ ExtractLocalLabelDecl \/ ExtractOther \/ ExtractDone
    \/ PassStart \/ ReturnOk
    \/ EmitDirective \/ EmitLabelDecl \/ EmitLocalLabelDecl \/ EmitInstruction
    \/ EmitOther \/ PassEnd

vars == <<ast, build, pc, cursor, bin, globals, locals, prev_label, last_global,
          changed, index, solved, passes, result, expr, value, cpu, host, raised,
          sent, handled, wire, back>>

\* link on every item stream of Programs
Spec == Init /\ [][Next]_vars

\* link is a sequential function: a step that can be taken is taken
FairSpec == Spec /\ WF_vars(Next)

\* Expression::solve on every expression of ExprInputs
ExprSpec == ExprInit /\ [][ExprEval]_vars

\* the encoder and the decoder on every instruction and every word stream
CodecSpec == CodecInit /\ [][CodecNext]_vars

\* append_to on every directive of AppendDirectives and buffer of AppendBuffers
AppendSpec == AppendInit /\ [][AppendTo]_vars

\* the emulator on every ROM of Roms
CpuSpec == CpuInit /\ [][CpuNext]_vars

\* the emulator on every ROM of Roms, with a queue that is full or nearly so
FloodSpec == FloodInit /\ [][CpuNext]_vars

(***************************************************************************)
(* What the item stream says, read off the stream alone.                   *)
(***************************************************************************)
MaxOf(S) == CHOOSE m \in S : \A n \in S : n <= m
MinOf(S) == CHOOSE m \in S : \A n \in S : m <= n

GlobalDeclsBefore(i) == {j \in 1..(i - 1) : ast[j].t = "LabelDecl"}

\* the global label in whose scope position i lies
ScopeAt(i) ==
    IF GlobalDeclsBefore(i) = {} THEN None
    ELSE Some(ast[MaxOf(GlobalDeclsBefore(i))].s)

\* the label references of an expression, of an operand, of an instruction
RECURSIVE ExprRefs(_)
ExprRefs(x) ==
    CASE x.e \in {"Label", "LocalLabel"} -> {x}
      [] x.e = "Num" -> {}
      [] OTHER -> ExprRefs(x.l) \cup ExprRefs(x.r)

ValueRefs(pv) == IF HasExpr(pv) THEN ExprRefs(pv.x) ELSE {}

InstrRefs(pi) ==
    IF pi.i = "BasicOp" THEN ValueRefs(pi.b) \cup ValueRefs(pi.a) ELSE ValueRefs(pi.a)

InstrAt(i) == ast[i].t = "ParsedInstruction"

LocalDeclsIn(scope) ==
    {j \in 1..Len(ast) : ast[j].t = "LocalLabelDecl" /\ ScopeAt(j) = scope}

\* a declaration that breaks the rules of section 3: the variant it is to fail with
DeclFault(i) ==
    CASE ast[i].t = "LabelDecl" /\ (\E j \in GlobalDeclsBefore(i) : ast[j].s = ast[i].s)
           -> "DuplicatedLabel"
      [] ast[i].t = "LocalLabelDecl" /\ ScopeAt(i) = None
           -> "LocalBeforeGlobal"
      [] ast[i].t = "LocalLabelDecl" /\ ScopeAt(i) # None
         /\ (\E j \in LocalDeclsIn(ScopeAt(i)) : j < i /\ ast[j].s = ast[i].s)
           -> "DuplicatedLocalLabel"
      [] OTHER -> "none"

DeclFaults == {i \in 1..Len(ast) : DeclFault(i) # "none"}

\* a reference of the instruction at i that no declaration in scope answers
Unresolved(i, ref) ==
    IF ref.e = "Label"
    THEN ~\E j \in 1..Len(ast) : ast[j].t = "LabelDecl" /\ ast[j].s = ref.s
    ELSE ~\E j \in LocalDeclsIn(ScopeAt(i)) : ScopeAt(i) # None /\ ast[j].s = ref.s

RefFaults ==
    {i \in 1..Len(ast) : InstrAt(i) /\ \E ref \in InstrRefs(ast[i].i) : Unresolved(i, ref)}

\* the words item j takes in the image, laid out with the label tables as they are
WidthNow(j) ==
    CASE ast[j].t = "Directive" -> append_to(ast[j].d, <<>>).n
      [] ast[j].t = "ParsedInstruction" ->
           LET r == InstrSolve(build, ast[j].i, globals, Scope(ScopeAt(j), locals))
           IN  IF r.k = "Ok" THEN Len(Encode(r.v)) ELSE 0
      [] OTHER -> 0

RECURSIVE WidthsBefore(_)
WidthsBefore(i) == IF i <= 1 THEN 0 ELSE WidthsBefore(i - 1) + WidthNow(i - 1)

Returned == pc = "done" /\ result.k = "Ok"

(***************************************************************************)
(* C1.  For every item stream the pre-pass accepts and whose references    *)
(* resolve, the fixed-point loop of link ends: link reaches its return.    *)
(***************************************************************************)
C1_LinkTerminates == <>(pc = "done")

(***************************************************************************)
(* C2.  When link returns Ok, every global and every local label holds the *)
(* emission index of its declaration: the sum of the widths of the items   *)
(* before it, laid out with the final addresses (so that one more pass     *)
(* would move no label).                                                   *)
(***************************************************************************)
C2_LabelsAtEmissionIndex ==
    Returned =>
        \A i \in 1..Len(ast) :
            /\ ast[i].t = "LabelDecl" => globals[ast[i].s] = WidthsBefore(i)
            /\ ast[i].t = "LocalLabelDecl" =>
                   locals[ScopeAt(i)[1]][ast[i].s] = WidthsBefore(i)

\* link returned after a pass that moved a label back: SET A, 32 - h; org 2; :h
C2_Witness ==
    /\ Returned /\ passes >= 3
    /\ \E s \in DOMAIN globals : globals[s] = 3
    /\ \E i \in 1..Len(ast) : InstrAt(i) /\ InstrRefs(ast[i].i) # {}

(***************************************************************************)
(* C3.  When link returns Ok(image), the length of image is the sum of the *)
(* widths of all directives and instructions, as emitted in the last pass. *)
(***************************************************************************)
C3_ImageLengthIsSumOfWidths ==
    Returned => Len(result.v) = WidthsBefore(Len(ast) + 1)

(***************************************************************************)
(* C4.  link returns Err if and only if the stream has a duplicate or an   *)
(* out-of-scope label: a faulty declaration or an unresolved reference.    *)
(***************************************************************************)
C4_ErrIffLabelFault ==
    pc = "done" => (result.k = "Err" <=> (DeclFaults # {} \/ RefFaults # {}))

(***************************************************************************)
(* C5.  The pre-pass fails with the variant and the name of the first      *)
(* faulty declaration of the stream (LocalBeforeGlobal, DuplicatedLabel,   *)
(* DuplicatedLocalLabel), before any pass has run and with no image; a     *)
(* stream without a faulty declaration, such as one declaring the same     *)
(* local name under two global labels, gets none of these errors.          *)
(***************************************************************************)
DeclErrors == {"LocalBeforeGlobal", "DuplicatedLabel", "DuplicatedLocalLabel"}

C5_PrePassClassifies ==
    /\ DeclFaults # {} =>
          /\ pc \in {"extract", "done"}
          /\ passes = 0
          /\ bin = <<>>
          /\ pc = "done" =>
                LET i == MinOf(DeclFaults)
                IN  result = Err(DeclFault(i), ast[i].s)
    /\ DeclFaults = {} => ~(result.k = "Err" /\ result.e \in DeclErrors)
    /\ pc \in {"loop", "pass"} => DeclFaults = {}

\* :g :.l :h :.l :.l  -- l is accepted under g and under h, its third
\* declaration is the duplicate
C5_Witness ==
    /\ pc = "done"
    /\ result = Err("DuplicatedLocalLabel", "l")
    /\ DOMAIN locals = {"g", "h"}
    /\ \A s \in DOMAIN locals : "l" \in DOMAIN locals[s]

(***************************************************************************)
(* C6.  An instruction whose operand a is a bare label reference: a local  *)
(* reference solves to the address held by the local of that name in the   *)
(* scope of the most recent global declaration before the instruction,     *)
(* wherever in that scope the local is declared, and fails with            *)
(* UnknownLocalLabel when that scope declares no such local; a global      *)
(* reference fails with UnknownLabel when the name is declared nowhere.    *)
(* When link returns, the locals of one name under two globals hold each   *)
(* the index of its own declaration.                                       *)
(***************************************************************************)
BareRefAt(i) ==
    /\ InstrAt(i)
    /\ ast[i].i.a.v = "Litteral"
    /\ ast[i].i.a.x.e \in {"Label", "LocalLabel"}
    /\ (ast[i].i.i = "BasicOp" => ~HasExpr(ast[i].i.b))

C6_Step ==
    (pc = "pass" /\ cursor <= Len(ast) /\ BareRefAt(cursor)) =>
        LET ref == ast[cursor].i.a.x IN
        IF Unresolved(cursor, ref)
        THEN /\ pc' = "done"
             /\ result' = Err(IF ref.e = "Label" THEN "UnknownLabel"
                              ELSE "UnknownLocalLabel", ref.s)
        ELSE /\ pc' = "pass"
             /\ solved'.a.n = IF ref.e = "Label" THEN globals[ref.s]
                              ELSE locals[ScopeAt(cursor)[1]][ref.s]

C6_Independent ==
    Returned' =>
        \A i \in 1..Len(ast) :
            ast[i].t = "LocalLabelDecl" =>
                locals'[ScopeAt(i)[1]][ast[i].s] = WidthsBefore(i)'

C6_LocalReferenceScoping == [][C6_Step /\ C6_Independent]_vars

\* :g :.l SET A,.l :h :.l has returned: l under g is 0, l under h is 1, and
\* the instruction in the scope of g was encoded with 0
C6_Witness ==
    /\ Returned
    /\ DOMAIN locals = {"g", "h"}
    /\ \A s \in DOMAIN locals : "l" \in DOMAIN locals[s]
    /\ locals["g"]["l"] = 0 /\ locals["h"]["l"] = 1
    /\ solved # NoInstr /\ solved.a.n = 0

(***************************************************************************)
(* C7.  Expression arithmetic wraps and never traps: on two numeric        *)
(* literals Add, Sub and Mul solve to (l + r), (l - r) and (l * r) modulo  *)
(* 65536, and a numeric literal n, signed or not, solves to n modulo 65536.*)
(***************************************************************************)
LitOf(x) == IF x.n.k = "U" THEN x.n.u ELSE x.n.i
WordOf(x) == LitOf(x) % WordMod

OnLiterals == expr.e \in ExprOps /\ expr.l.e = "Num" /\ expr.r.e = "Num"

\* (l * r) modulo 65536, by the bytes of r
ProductMod(l, r) ==
    (l * (r % 256) + ((l * (r \div 256)) % 256) * 256) % WordMod

C7_ArithmeticWraps ==
    value # Running =>
        /\ expr.e = "Num" => value = Ok(WordOf(expr))
        /\ OnLiterals /\ expr.e = "Add" =>
               value = Ok((WordOf(expr.l) + WordOf(expr.r)) % WordMod)
        /\ OnLiterals /\ expr.e = "Sub" =>
               value = Ok((WordOf(expr.l) - WordOf(expr.r)) % WordMod)
        /\ OnLiterals /\ expr.e = "Mul" =>
               value = Ok(ProductMod(WordOf(expr.l), WordOf(expr.r)))

\* 65535 + (-1) has been solved: the sum overflows 16 bits and wraps to 65534
C7_Witness ==
    /\ expr = Bin("Add", NumU(65535), NumI(-1))
    /\ value = Ok(65534)

(***************************************************************************)
(* C8.  When the instruction link is at has an operand a of the form       *)
(* l / r or l % r whose right operand solves to 0, link returns the error  *)
(* DivisionByZero to its caller.                                           *)
(***************************************************************************)
ZeroDivisorAt(i) ==
    /\ InstrAt(i)
    /\ ast[i].i.a.v = "Litteral"
    /\ ast[i].i.a.x.e \in {"Div", "Mod"}
    /\ (ast[i].i.i = "BasicOp" => ~HasExpr(ast[i].i.b))
    /\ ExprSolve(build, ast[i].i.a.x.l, globals, Scope(last_global, locals)).k = "Ok"
    /\ ExprSolve(build, ast[i].i.a.x.r, globals, Scope(last_global, locals)) = Ok(0)

C8_DivisionByZeroIsAnError ==
    (pc = "done" /\ passes >= 1 /\ cursor <= Len(ast) /\ ZeroDivisorAt(cursor))
    => (result.k = "Err" /\ result.e = "DivisionByZero")

(***************************************************************************)
(* C9.  On two numeric literals, l << r and l >> r solve to 0 when r is 16 *)
(* or more, and to the 16-bit shift of l by r when r is less than 16.      *)
(***************************************************************************)
C9_WideShiftIsZero ==
    (value # Running /\ OnLiterals /\ expr.e \in {"Shl", "Shr"}) =>
        LET l == WordOf(expr.l)
            r == WordOf(expr.r)
        IN  value = Ok(IF r >= WordBits THEN 0
                       ELSE IF expr.e = "Shl" THEN (l * Pow2(r)) % WordMod
                       ELSE l \div Pow2(r))

(***************************************************************************)
(* C10.  A tick taken with the skip flag set consumes the instruction at   *)
(* PC without executing it: PC moves past the instruction and its operand  *)
(* words, one cycle is counted, no other register and no memory word       *)
(* changes, and the skip flag stays set exactly when the instruction is a  *)
(* conditional.  So N conditionals and one non-conditional after a false   *)
(* conditional are consumed in N + 1 ticks, and the tick after them finds  *)
(* the flag clear and executes.                                            *)
(***************************************************************************)
C10_SkippedTick ==
    (HostTick /\ cpu.skip /\ ValidOp(Decode(cpu.mem, cpu.PC))) =>
        LET d == Decode(cpu.mem, cpu.PC)
        IN  /\ cpu' = [cpu EXCEPT !.PC = Wrap(@ + d.len),
                                  !.cycles = @ + 1,
                                  !.skip = IsConditional(d)]
            /\ host' = "looping"

C10_SkipChain == [][C10_SkippedTick]_vars

(***************************************************************************)
(* C11.  Interrupts are delivered in the order they were enqueued, INT and *)
(* the devices sharing one queue: the messages handed to the handler,      *)
(* followed by the messages still queued, are the messages enqueued, in    *)
(* order.  A message leaves the queue only at the start of a tick, at most *)
(* one per tick, the oldest one, and only with IA # 0 and queueing off;    *)
(* while queueing is on the queue only grows at its end.                   *)
(***************************************************************************)
IsPrefix(p, q) == Len(p) <= Len(q) /\ SubSeq(q, 1, Len(p)) = p

C11_Fifo == sent = handled \o cpu.queue

C11_Step ==
    /\ Len(handled') <= Len(handled) + 1
    /\ handled' # handled =>
          /\ HostTick
          /\ cpu.queue # <<>> /\ cpu.IA # 0 /\ ~cpu.queueing
          /\ handled' = Append(handled, Head(cpu.queue))
    /\ handled' = handled => IsPrefix(cpu.queue, cpu'.queue)
    /\ cpu.queueing => handled' = handled

C11_InterruptOrder == [](C11_Fifo) /\ [][C11_Step]_vars

\* INT 5, then a device's 7, then IAS: the handler got 5 and then 7, and a
\* later tick has run with both delivered
C11_Witness ==
    /\ handled = <<5, DeviceMessage>>
    /\ sent = handled
    /\ cpu.queue = <<>>

(***************************************************************************)
(* C12.  The interrupt queue never holds more than 256 messages.  An       *)
(* enqueue attempted on a queue of 256, by INT or by a device, is answered *)
(* with an error that ends the host loop, and leaves the queue as it was:  *)
(* nothing is dropped, overwritten or reordered.                           *)
(***************************************************************************)
\* the tick about to be taken executes an INT
ExecutesInt(c) ==
    LET c1 == Dispatch(c)
        d == Decode(c1.mem, c1.PC)
    IN  ~c1.skip /\ ~d.basic /\ d.op = 8

C12_Bounded == Len(cpu.queue) <= 256

C12_Overflow ==
    /\ (DeviceInterrupt /\ Len(cpu.queue) = 256) =>
           (host' = "exited" /\ cpu'.queue = cpu.queue)
    /\ (HostTick /\ ExecutesInt(cpu) /\ Len(Dispatch(cpu).queue) = 256) =>
           (host' = "exited" /\ cpu'.queue = Dispatch(cpu).queue)
    /\ (handled' = handled /\ Len(cpu.queue) = 256) => cpu'.queue = cpu.queue

C12_QueueCapacity == [](C12_Bounded) /\ [][C12_Overflow]_vars

\* the ROM INT 5 run on a queue of 256: the first tick has returned the error
C12_Witness ==
    /\ host = "exited"
    /\ Len(cpu.queue) = 256
    /\ sent = cpu.queue
    /\ Rd(cpu.mem, 0) = Encode(Special(8, VLit(5)))[1]
    /\ cpu.PC = 1 /\ cpu.cycles = 0

(***************************************************************************)
(* C13.  Round trip: decoding the encoding of an instruction gives the     *)
(* instruction back, for every opcode and every operand kind; and encoding *)
(* the decoding of a well-formed word stream gives the stream back word    *)
(* for word, also when operand a is a next-word literal (code 0x1f) with a *)
(* value in -1..30.                                                        *)
(***************************************************************************)
C13_InstructionBack == (back # Running /\ wire.k = "instruction") => back.v = wire.i

C13_WordsBack == (back # Running /\ wire.k = "words") => back.v = wire.w

C13_RoundTrip == C13_InstructionBack /\ C13_WordsBack

(***************************************************************************)
(* C14.  The host loop stops if and only if a tick returns an error: a     *)
(* turn of the loop whose tick returns Ok leaves the loop running, the     *)
(* turn whose tick returns an error ends it, the loop ends in no other     *)
(* way, and once it has ended no tick is executed: the Cpu stays as the    *)
(* failed tick left it.                                                    *)
(***************************************************************************)
C14_Turn ==
    /\ HostTick => (host' = "exited" <=> Tick(cpu).ret.k = "Err")
    /\ (host = "looping" /\ host' # "looping") =>
           \/ HostTick /\ Tick(cpu).ret.k = "Err"
           \/ DeviceInterrupt /\ Enqueue(cpu, DeviceMessage).ret.k = "Err"
    /\ host = "exited" => (host' = "exited" /\ cpu' = cpu)

C14_StopsIffError == [][C14_Turn]_vars

\* SET A, 1 was executed by a tick that returned Ok, and the tick after it
\* found no valid opcode: the loop has ended
C14_Witness ==
    /\ host = "exited"
    /\ cpu.reg[0] = 1
    /\ cpu.cycles = 1
    /\ cpu.PC = 2

(***************************************************************************)
(* C15.  In every pass, when a directive or an instruction is about to be  *)
(* emitted, the emission index is the length of the image buffer.          *)
(***************************************************************************)
C15_IndexIsBufferLength ==
    (pc = "pass" /\ cursor <= Len(ast)
     /\ ast[cursor].t \in {"Directive", "ParsedInstruction"})
    => index = Len(bin)

(***************************************************************************)
(* C16.  When link returns Ok(image), every instruction stands in image at *)
(* the sum of the widths before it, encoded with the addresses the labels  *)
(* hold at the return: no word of an instruction was encoded with an       *)
(* address of an earlier pass.                                             *)
(***************************************************************************)
C16_NoStaleAddress ==
    Returned =>
        \A i \in 1..Len(ast) :
            InstrAt(i) =>
                LET r == InstrSolve(build, ast[i].i, globals, Scope(ScopeAt(i), locals))
                    at == WidthsBefore(i)
                IN  /\ r.k = "Ok"
                    /\ at + Len(Encode(r.v)) <= Len(result.v)
                    /\ SubSeq(result.v, at + 1, at + Len(Encode(r.v))) = Encode(r.v)

\* SET A, h + 30 ; :h has returned after three passes: h went 0, 1, 2 and the
\* image holds the literal 32, not the 30 or the 31 of the earlier passes
C16_Witness ==
    /\ Returned /\ passes = 3
    /\ ast = <<SetA(Bin("Add", Label("h"), NumU(30))), LabelDecl("h")>>
    /\ result.v = <<31745, 32>>

(***************************************************************************)
(* C17.  At the start of every pass last_global is unset, and in every     *)
(* pass an instruction before the first global label declaration of the    *)
(* stream is reached with last_global unset, so that it is solved against  *)
(* an empty local scope.                                                   *)
(***************************************************************************)
C17_LastGlobalUnsetAtPassStart ==
    /\ (pc = "pass" /\ cursor = 1) => last_global = None
    /\ (pc = "pass" /\ cursor <= Len(ast) /\ InstrAt(cursor) /\ ScopeAt(cursor) = None)
          => last_global = None

(***************************************************************************)
(* C18.  No label address ever decreases: a pass never gives a global or a *)
(* local label an address below the one the pass before gave it.           *)
(***************************************************************************)
C18_Step ==
    /\ \A s \in DOMAIN globals : globals'[s] >= globals[s]
    /\ \A g \in DOMAIN locals : \A s \in DOMAIN locals[g] :
           locals'[g][s] >= locals[g][s]

C18_AddressesNeverDecrease == [][C18_Step]_vars

(***************************************************************************)
(* C19.  In the first pass every label reference of an instruction         *)
(* evaluates to 0, wherever the label is declared, so that an operand-a    *)
(* literal that is inline-eligible with all labels at 0 is encoded inline. *)
(***************************************************************************)
ZeroTable(t) == [s \in DOMAIN t |-> 0]

\* what a reference of the instruction link is at evaluates to
RefValue(ref) == ExprSolve(build, ref, globals, Scope(last_global, locals))

\* what an expression evaluates to with every label at 0
ZeroValue(x) ==
    ExprSolve(build, x, ZeroTable(globals), ZeroTable(Scope(last_global, locals)))

AtInstrInFirstPass ==
    passes = 1 /\ pc = "pass" /\ cursor <= Len(ast) /\ InstrAt(cursor)

C19_FirstPassLabelsAreZero ==
    AtInstrInFirstPass =>
        /\ \A ref \in InstrRefs(ast[cursor].i) :
               RefValue(ref).k = "Ok" => RefValue(ref).v = 0
        /\ LET r == InstrSolve(build, ast[cursor].i, globals,
                               Scope(last_global, locals))
           IN  (/\ ast[cursor].i.a.v = "Litteral" /\ r.k = "Ok"
                /\ ZeroValue(ast[cursor].i.a.x).k = "Ok"
                /\ InlineLit(ZeroValue(ast[cursor].i.a.x).v))
               => ValueExtra(r.v.a, TRUE) = <<>>

(***************************************************************************)
(* C19, amended.  In the first pass a label whose declaration the pass has *)
(* not reached yet holds 0, so every reference to a label declared later   *)
(* in the stream than the instruction evaluates to 0; and an instruction   *)
(* all of whose references are to labels declared later, and whose         *)
(* operand-a literal is inline-eligible with the labels at 0, is written   *)
(* with that literal inline.                                               *)
(***************************************************************************)
\* ref, used by the instruction at i, is declared after i in the scope of i
Forward(i, ref) ==
    IF ref.e = "Label"
    THEN \E j \in (i + 1)..Len(ast) : ast[j].t = "LabelDecl" /\ ast[j].s = ref.s
    ELSE /\ ScopeAt(i) # None
         /\ \E j \in LocalDeclsIn(ScopeAt(i)) : j > i /\ ast[j].s = ref.s

C19_NotYetReached ==
    (passes = 1 /\ pc = "pass") =>
        \A j \in cursor..Len(ast) :
            /\ ast[j].t = "LabelDecl" => globals[ast[j].s] = 0
            /\ ast[j].t = "LocalLabelDecl" => locals[ScopeAt(j)[1]][ast[j].s] = 0

C19_ForwardIsZero ==
    AtInstrInFirstPass =>
        \A ref \in InstrRefs(ast[cursor].i) :
            Forward(cursor, ref) => RefValue(ref) = Ok(0)

C19_ForwardInline ==
    (/\ AtInstrInFirstPass
     /\ ast[cursor].i.a.v = "Litteral"
     /\ \A ref \in InstrRefs(ast[cursor].i) : Forward(cursor, ref)
     /\ InstrSolve(build, ast[cursor].i, globals, Scope(last_global, locals)).k = "Ok"
     /\ InlineLit(ZeroValue(ast[cursor].i.a.x).v))
    => LET z == ZeroValue(ast[cursor].i.a.x).v
       IN  /\ pc' = "pass"
           /\ Len(bin') > index
           /\ bin'[index + 1] \div 1024 = (IF z = WordMod - 1 THEN 32 ELSE 33 + z)

C19_FirstPassForwardRefs ==
    [](C19_NotYetReached /\ C19_ForwardIsZero) /\ [][C19_ForwardInline]_vars

\* org 2 ; SET A, g ; :g in the first pass, the instruction just written:
\* g, declared after it, was 0 and is inline in the word 0x8401
C19_Witness ==
    /\ passes = 1 /\ pc = "pass" /\ cursor = 3
    /\ ast = <<Directive(Org(2)), SetA(Label("g")), LabelDecl("g")>>
    /\ solved.a.n = 0
    /\ bin = <<0, 0, 33793>>

(***************************************************************************)
(* C20.  append_to only appends: the words the buffer held stay where they *)
(* were, and the count returned is the number of words added.  dat adds    *)
(* its items in order, a string as its bytes followed by one 0 and a       *)
(* number as one word; org n adds n words 0; global, text and bss add      *)
(* nothing and return 0.                                                   *)
(***************************************************************************)
\* words item k of a dat takes
DatItemWidth(x) == IF x.x = "S" THEN Len(x.s) + 1 ELSE 1

\* words the items before item k of a dat take
RECURSIVE DatOffset(_, _)
DatOffset(v, k) == IF k <= 1 THEN 0 ELSE DatOffset(v, k - 1) + DatItemWidth(v[k - 1])

C20_Step ==
    pc = "append" =>
        LET d == ast[1].d
            old == Len(bin)
        IN  /\ Len(bin') = old + index'
            /\ \A k \in 1..old : bin'[k] = bin[k]
            /\ d.d = "Org" =>
                   index' = d.n /\ \A k \in 1..d.n : bin'[old + k] = 0
            /\ d.d \in {"Global", "Text", "BSS"} => (index' = 0 /\ bin' = bin)
            /\ d.d = "Dat" =>
                   /\ index' = DatOffset(d.v, Len(d.v) + 1)
                   /\ \A k \in 1..Len(d.v) :
                          LET at == old + DatOffset(d.v, k)
                          IN  IF d.v[k].x = "N"
                              THEN bin'[at + 1] = d.v[k].n
                              ELSE /\ \A j \in 1..Len(d.v[k].s) :
                                         bin'[at + j] = d.v[k].s[j]
                                   /\ bin'[at + Len(d.v[k].s) + 1] = 0

C20_AppendOnly == [][C20_Step]_vars

\* dat "Hi", 7 appended to a buffer of two words: five words now, four added
C20_Witness ==
    /\ pc = "appended"
    /\ ast = <<Directive(Dat(<<DatS(<<72, 105>>), DatN(7)>>))>>
    /\ bin = <<Filler, 7, 72, 105, 0, 7>>
    /\ index = 4

====
